---- MODULE Spec2Model ----
(***************************************************************************)
(* Model of scripts/rebuild-jcr-db.py: the rebuild of the JCR journal      *)
(* database from the CSV files of jcr_mate.                                *)
(*                                                                         *)
(* Column names that the source writes in Chinese are transliterated to    *)
(* ASCII (pinyin), one name per source name: NianFen, DaLei, DaLeiFenQu,   *)
(* XiaoLei1..6, XiaoLei1..6FenQu, BiaoZhu, KanWuJianCheng, KanWuMingCheng, *)
(* ChuBanShe, WangZhi, LingYu, "CCF TuiJianLeiBie(...)",                   *)
(* "CCF TuiJianLeiXing", "HeBing/GengMingWei", ZhuBanDanWei,               *)
(* ZhongWenKanMing, "CN Hao", YuZhong, "T FenQu", "YuJingDengJi(year)",    *)
(* "YuJingYuanYin(year)".                                                  *)
(***************************************************************************)
EXTENDS Integers, Sequences, FiniteSets, TLC

VARIABLES
    pc,             \* main's position
    idx,            \* index in Pairs of the next (file, table) pair to import
    fs,             \* the files at DB_PATH and at the backup path
    conn,           \* the sqlite3 connection: open flag and its working view
    csvDir,         \* the CSV directory: exists flag and its files
    total_records,  \* main's running total
    exitStatus,     \* process outcome: "running", "0" or "1"
    diag,           \* the diagnostic the run ended with
    report,         \* what main printed at the end (table count, total)
    dbBefore,       \* history: the file at DB_PATH when the run started
    calls,          \* harness: number of import_csv_to_table calls made
    last            \* harness: the outcome of the last call

vars == <<pc, idx, fs, conn, csvDir, total_records, exitStatus, diag, report,
          dbBefore, calls, last>>

----------------------------------------------------------------------------
(* Bounds of the model.                                                    *)

\* main: at most this many of the CSV files are present in the directory
MaxPresent == 2
\* harness: at most this many data rows in a CSV file
MaxCsvRows == 2
\* harness: at most this many calls of import_csv_to_table
MaxCalls == 3

----------------------------------------------------------------------------
(* The schema: create_tables.                                              *)

JCRTables == {"JCR2020", "JCR2021", "JCR2022", "JCR2023", "JCR2024"}
FQBTables == {"FQBJCR2021", "FQBJCR2022", "FQBJCR2023", "FQBJCR2025"}
CCFTables == {"CCF2019", "CCF2022", "CCFChinese2019", "CCFT2022"}
GJQKTables == {"GJQKYJMD2020", "GJQKYJMD2021", "GJQKYJMD2023",
               "GJQKYJMD2024", "GJQKYJMD2025"}

\* every table create_tables creates
Tables == JCRTables \cup FQBTables \cup CCFTables \cup GJQKTables

\* the declared columns of each table
Columns(t) ==
    CASE t = "JCR2020" ->
           {"id", "Journal", "IF (2020)"}
      [] t = "JCR2021" ->
           {"id", "Journal", "IF(2021)"}
      [] t = "JCR2022" ->
           {"id", "Journal", "IF(2022)", "IF Quartile(2022)"}
      [] t = "JCR2023" ->
           {"id", "Journal", "Country", "ISSN", "EISSN", "Web of Science",
            "IF(2023)", "Category", "IF Quartile(2023)",
            "Category Rank(2023)"}
      [] t = "JCR2024" ->
           {"id", "Journal", "ISSN", "eISSN", "Category", "IF(2024)",
            "IF Quartile(2024)", "IF Rank(2024)"}
      [] t = "FQBJCR2021" ->
           {"id", "Journal", "NianFen", "ISSN", "Review", "Open Access",
            "Web of Science", "DaLei", "DaLeiFenQu", "Top", "XiaoLei1",
            "XiaoLei1FenQu", "XiaoLei2", "XiaoLei2FenQu", "XiaoLei3",
            "XiaoLei3FenQu", "XiaoLei4", "XiaoLei4FenQu", "XiaoLei5",
            "XiaoLei5FenQu", "XiaoLei6", "XiaoLei6FenQu"}
      [] t = "FQBJCR2022" ->
           {"id", "Journal", "NianFen", "ISSN", "Review", "Open Access",
            "Web of Science", "DaLei", "DaLeiFenQu", "Top", "XiaoLei1",
            "XiaoLei1FenQu", "XiaoLei2", "XiaoLei2FenQu", "XiaoLei3",
            "XiaoLei3FenQu", "XiaoLei4", "XiaoLei4FenQu", "XiaoLei5",
            "XiaoLei5FenQu", "XiaoLei6", "XiaoLei6FenQu"}
      [] t = "FQBJCR2023" ->
           {"id", "Journal", "NianFen", "ISSN", "Review", "Open Access",
            "Web of Science", "DaLei", "DaLeiFenQu", "Top", "XiaoLei1",
            "XiaoLei1FenQu", "XiaoLei2", "XiaoLei2FenQu", "XiaoLei3",
            "XiaoLei3FenQu", "XiaoLei4", "XiaoLei4FenQu", "XiaoLei5",
            "XiaoLei5FenQu", "XiaoLei6", "XiaoLei6FenQu"}
      [] t = "FQBJCR2025" ->
           {"id", "Journal", "NianFen", "ISSN/EISSN", "Review",
            "OA Journal Index(OAJ)", "Open Access", "Web of Science",
            "BiaoZhu", "DaLei", "DaLeiFenQu", "Top", "XiaoLei1",
            "XiaoLei1FenQu", "XiaoLei2", "XiaoLei2FenQu", "XiaoLei3",
            "XiaoLei3FenQu", "XiaoLei4", "XiaoLei4FenQu", "XiaoLei5",
            "XiaoLei5FenQu", "XiaoLei6", "XiaoLei6FenQu"}
      [] t = "CCF2019" ->
           {"id", "KanWuJianCheng", "Journal", "NianFen", "ChuBanShe",
            "WangZhi", "LingYu", "CCF TuiJianLeiBie(GuoJiXueShuKanWu/HuiYi)",
            "CCF TuiJianLeiXing", "HeBing/GengMingWei"}
      [] t = "CCF2022" ->
           {"id", "KanWuMingCheng", "Journal", "NianFen", "ChuBanShe",
            "WangZhi", "LingYu", "CCF TuiJianLeiBie(GuoJiXueShuKanWu/HuiYi)",
            "CCF TuiJianLeiXing"}
      [] t = "CCFChinese2019" ->
           {"id", "Journal", "ZhuBanDanWei", "WangZhi", "CCF TuiJianLeiXing"}
      [] t = "CCFT2022" ->
           {"id", "ZhongWenKanMing", "Journal", "CN Hao", "YuZhong",
            "ZhuBanDanWei", "CCF TuiJianLeiBie", "T FenQu"}
      [] t = "GJQKYJMD2020" ->
           {"id", "Journal", "YuJingDengJi(2020)"}
      [] t = "GJQKYJMD2021" ->
           {"id", "Journal", "YuJingDengJi(2021)"}
      [] t = "GJQKYJMD2023" ->
           {"id", "Journal", "YuJingDengJi(2023)"}
      [] t = "GJQKYJMD2024" ->
           {"id", "Journal", "YuJingYuanYin(2024)"}
      [] t = "GJQKYJMD2025" ->
           {"id", "Journal", "YuJingYuanYin(2025)"}

\* the columns a row stores besides the surrogate id
DataColumns(t) == Columns(t) \ {"id"}

\* the columns declared NOT NULL (Journal, in the JCR, FQBJCR and GJQKYJMD tables)
NotNullColumns(t) == IF t \in CCFTables THEN {} ELSE {"Journal"}

\* the columns of the table's UNIQUE(...) constraint; {} when it declares none
UniqueColumns(t) ==
    IF t \in JCRTables THEN {"Journal"}
    ELSE IF t = "FQBJCR2025" THEN {"Journal", "ISSN/EISSN"}
    ELSE IF t \in FQBTables THEN {"Journal", "ISSN"}
    ELSE {}

----------------------------------------------------------------------------
(* The indexes: the CREATE INDEX statements of create_indexes, in order.   *)

Idx(n, t, c) == [name |-> n, table |-> t, column |-> c]

IndexStatements ==
    << Idx("idx_jcr2020_journal", "JCR2020", "Journal"),
       Idx("idx_jcr2020_quartile", "JCR2020", "IF Quartile(2020)"),
       Idx("idx_jcr2021_journal", "JCR2021", "Journal"),
       Idx("idx_jcr2021_quartile", "JCR2021", "IF Quartile(2021)"),
       Idx("idx_jcr2022_journal", "JCR2022", "Journal"),
       Idx("idx_jcr2022_quartile", "JCR2022", "IF Quartile(2022)"),
       Idx("idx_jcr2023_journal", "JCR2023", "Journal"),
       Idx("idx_jcr2023_quartile", "JCR2023", "IF Quartile(2023)"),
       Idx("idx_jcr2024_journal", "JCR2024", "Journal"),
       Idx("idx_jcr2024_issn", "JCR2024", "ISSN"),
       Idx("idx_jcr2024_eissn", "JCR2024", "eISSN"),
       Idx("idx_jcr2024_quartile", "JCR2024", "IF Quartile(2024)"),
       Idx("idx_jcr2024_category", "JCR2024", "Category"),
       Idx("idx_fqb2021_journal", "FQBJCR2021", "Journal"),
       Idx("idx_fqb2021_issn", "FQBJCR2021", "ISSN"),
       Idx("idx_fqb2021_major_cat", "FQBJCR2021", "DaLei"),
       Idx("idx_fqb2021_major_part", "FQBJCR2021", "DaLeiFenQu"),
       Idx("idx_fqb2021_top", "FQBJCR2021", "Top"),
       Idx("idx_fqb2022_journal", "FQBJCR2022", "Journal"),
       Idx("idx_fqb2022_issn", "FQBJCR2022", "ISSN"),
       Idx("idx_fqb2022_major_cat", "FQBJCR2022", "DaLei"),
       Idx("idx_fqb2022_major_part", "FQBJCR2022", "DaLeiFenQu"),
       Idx("idx_fqb2022_top", "FQBJCR2022", "Top"),
       Idx("idx_fqb2023_journal", "FQBJCR2023", "Journal"),
       Idx("idx_fqb2023_issn", "FQBJCR2023", "ISSN"),
       Idx("idx_fqb2023_major_cat", "FQBJCR2023", "DaLei"),
       Idx("idx_fqb2023_major_part", "FQBJCR2023", "DaLeiFenQu"),
       Idx("idx_fqb2023_top", "FQBJCR2023", "Top"),
       Idx("idx_fqb2025_journal", "FQBJCR2025", "Journal"),
       Idx("idx_fqb2025_issn", "FQBJCR2025", "ISSN/EISSN"),
       Idx("idx_fqb2025_major_cat", "FQBJCR2025", "DaLei"),
       Idx("idx_fqb2025_major_part", "FQBJCR2025", "DaLeiFenQu"),
       Idx("idx_fqb2025_top", "FQBJCR2025", "Top"),
       Idx("idx_ccf2019_journal", "CCF2019", "Journal"),
       Idx("idx_ccf2022_journal", "CCF2022", "Journal"),
       Idx("idx_ccfcn2019_journal", "CCFChinese2019", "Journal"),
       Idx("idx_ccft2022_journal", "CCFT2022", "Journal"),
       Idx("idx_gjqk2020_journal", "GJQKYJMD2020", "Journal"),
       Idx("idx_gjqk2021_journal", "GJQKYJMD2021", "Journal"),
       Idx("idx_gjqk2023_journal", "GJQKYJMD2023", "Journal"),
       Idx("idx_gjqk2024_journal", "GJQKYJMD2024", "Journal"),
       Idx("idx_gjqk2025_journal", "GJQKYJMD2025", "Journal") >>

----------------------------------------------------------------------------
(* Files and databases.                                                    *)

\* the database file (line 13) and its sibling backup (line 329)
DB_PATH == "jcr.db"
BackupPath == "jcr.db.backup"
Paths == {DB_PATH, BackupPath}

\* a path with no file
NoFile == [exists |-> FALSE, tables |-> <<>>, sequence |-> <<>>, indexes |-> {}]

\* the database sqlite3.connect creates when the file is absent: no table
EmptyDatabase ==
    [exists |-> TRUE, tables |-> <<>>, sequence |-> <<>>, indexes |-> {}]

\* Python's None, bound by sqlite3 as SQL NULL
None == "None"

\* a stored row: the AUTOINCREMENT id and the value of each data column
Row(id, t, f) == [id |-> id, f |-> [c \in DataColumns(t) |-> f[c]]]

\* CREATE TABLE IF NOT EXISTS for every table of Tables (an existing table is
\* kept as it is); sqlite_sequence holds the last id given in each table
CreateTablesIn(db) ==
    [db EXCEPT
        !.tables = [t \in (DOMAIN db.tables) \cup Tables |->
                       IF t \in DOMAIN db.tables THEN db.tables[t] ELSE <<>>],
        !.sequence = [t \in (DOMAIN db.sequence) \cup Tables |->
                       IF t \in DOMAIN db.sequence THEN db.sequence[t] ELSE 0]]

----------------------------------------------------------------------------
(* CSV files as csv.DictReader reads them.                                 *)

\* a text of the file: s is the text without its surrounding whitespace, ws
\* says whether whitespace surrounds it (ws and s = "": whitespace only)
Text(ws, s) == [ws |-> ws, s |-> s]

\* the value DictReader gives a field the row is too short for (restval)
NoneField == [ws |-> FALSE, s |-> None]

\* str.strip()
Strip(text) == text.s

\* Python truth of a field: None and the empty string are false
Truthy(text) == text # NoneField /\ (text.ws \/ text.s # "")

\* a CSV file: the header's names and the data rows, each a sequence of texts
CsvFile(header, rows) == [exists |-> TRUE, header |-> header, rows |-> rows]
MissingCsv == [exists |-> FALSE, header |-> <<>>, rows |-> <<>>]

\* line 286: the header's names, stripped
FieldNames(header) ==
    [i \in 1..Len(header) |->
        IF Truthy(header[i]) THEN Strip(header[i]) ELSE header[i].s]

\* the field of a row under the i-th name (None when the row is too short)
Field(row, i) == IF i <= Len(row) THEN row[i] ELSE NoneField

\* lines 305-308: the stripped value, None for an empty one
CellValue(text) ==
    LET val == IF Truthy(text) THEN Strip(text) ELSE None
    IN  IF val = "" THEN None ELSE val

----------------------------------------------------------------------------
(* INSERT OR REPLACE.                                                      *)

\* whether stored row r holds the same non-NULL values as the new row in
\* every column of the table's UNIQUE constraint (SQL NULLs never conflict)
Conflicts(t, r, new) ==
    /\ UniqueColumns(t) # {}
    /\ \A c \in UniqueColumns(t) : r.f[c] # None /\ r.f[c] = new.f[c]

\* a row given under the names of the CSV header: columns not named are NULL
NewRow(db, t, names, values) ==
    Row(db.sequence[t] + 1, t,
        [c \in DataColumns(t) |->
            IF \E i \in 1..Len(names) : names[i] = c
            THEN values[CHOOSE i \in 1..Len(names) : names[i] = c]
            ELSE None])

\* one INSERT OR REPLACE: a NULL in a NOT NULL column fails the statement;
\* otherwise the rows that conflict are deleted and the new row is added
InsertOrReplace(db, t, names, values) ==
    LET new == NewRow(db, t, names, values)
        Kept(r) == ~Conflicts(t, r, new)
    IN  IF \E c \in NotNullColumns(t) : new.f[c] = None
        THEN [db |-> db, raised |-> TRUE]
        ELSE [db |-> [db EXCEPT
                        !.tables[t] = Append(SelectSeq(@, Kept), new),
                        !.sequence[t] = new.id],
              raised |-> FALSE]

\* cursor.executemany: the rows in order, inside one transaction; a failing
\* row raises and leaves the rows before it inserted and not committed
RECURSIVE ExecuteMany(_, _, _, _)
ExecuteMany(db, t, names, data) ==
    IF data = <<>> THEN [db |-> db, raised |-> FALSE]
    ELSE LET r == InsertOrReplace(db, t, names, Head(data))
         IN  IF r.raised THEN r
             ELSE ExecuteMany(r.db, t, names, Tail(data))

----------------------------------------------------------------------------
(* import_csv_to_table.                                                    *)

\* the outcome of a call: the connection's view afterwards, the value
\* returned, whether it raised, whether it committed
Outcome(db, ret, raised, committed) ==
    [db |-> db, ret |-> ret, raised |-> raised, committed |-> committed]

\* lines 301-310: the values of every row under the columns of the first row
DataOf(names, rows) ==
    [r \in 1..Len(rows) |->
        [i \in 1..Len(names) |-> CellValue(Field(rows[r], i))]]

\* lines 281-315: the file read, its rows inserted, the commit
ReadAndInsert(db, file, t) ==
    LET names == FieldNames(file.header)
        rows == file.rows
    IN  IF rows = <<>> THEN Outcome(db, 0, FALSE, FALSE)
        \* a first row longer than the header has the key None, whose value
        \* is a list: row[col].strip() raises
        ELSE IF Len(rows[1]) > Len(names) THEN Outcome(db, 0, TRUE, FALSE)
        \* the statement names a column the table does not have
        ELSE IF t \notin DOMAIN db.tables
                \/ \E i \in 1..Len(names) : names[i] \notin Columns(t)
             THEN Outcome(db, 0, TRUE, FALSE)
        ELSE LET r == ExecuteMany(db, t, names, DataOf(names, rows))
             IN  IF r.raised THEN Outcome(r.db, 0, TRUE, FALSE)
                 ELSE Outcome(r.db, Len(rows), FALSE, TRUE)

\* a variant that opens the file without looking whether it exists
ImportCsvToTableNoExistsCheck(db, file, t) ==
    IF ~file.exists THEN Outcome(db, 0, TRUE, FALSE)
    ELSE ReadAndInsert(db, file, t)

\* a variant that never commits
ImportCsvToTableNoCommit(db, file, t) ==
    IF ~file.exists THEN Outcome(db, 0, FALSE, FALSE)
    ELSE [ReadAndInsert(db, file, t) EXCEPT !.committed = FALSE]

ImportCsvToTable(db, file, t) ==
    IF ~file.exists THEN Outcome(db, 0, FALSE, FALSE)
    ELSE ReadAndInsert(db, file, t)

----------------------------------------------------------------------------
(* create_indexes.                                                         *)

\* CREATE INDEX IF NOT EXISTS, statement by statement. A double-quoted name
\* that is no column of the table is a string literal where SQLite is built
\* with double-quoted string literals allowed in DDL (the index is then on
\* that expression), and an error where it is built with SQLITE_DQS=0
RECURSIVE CreateIndexesIn(_, _, _)
CreateIndexesIn(db, stmts, strict) ==
    IF stmts = <<>> THEN [db |-> db, raised |-> FALSE]
    ELSE LET s == Head(stmts)
         IN  IF s.table \notin DOMAIN db.tables
                \/ (strict /\ s.column \notin Columns(s.table))
             THEN [db |-> db, raised |-> TRUE]
             ELSE CreateIndexesIn(
                      [db EXCEPT !.indexes =
                          IF \E i \in @ : i.name = s.name THEN @
                          ELSE @ \cup {s}],
                      Tail(stmts), strict)

----------------------------------------------------------------------------
(* main: the (file, table) pairs, in the order main imports them.          *)

Pair(f, t) == [file |-> f, table |-> t]

Pairs ==
    << Pair("JCR2020-UTF8.csv", "JCR2020"),
       Pair("JCR2021-UTF8.csv", "JCR2021"),
       Pair("JCR2022-UTF8.csv", "JCR2022"),
       Pair("JCR2023-UTF8.csv", "JCR2023"),
       Pair("JCR2024-UTF8.csv", "JCR2024"),
       Pair("FQBJCR2021-UTF8.csv", "FQBJCR2021"),
       Pair("FQBJCR2022-UTF8.csv", "FQBJCR2022"),
       Pair("FQBJCR2023-UTF8.csv", "FQBJCR2023"),
       Pair("FQBJCR2025-UTF8.csv", "FQBJCR2025"),
       Pair("CCF2019-UTF8.csv", "CCF2019"),
       Pair("CCF2022-UTF8.csv", "CCF2022"),
       Pair("CCFChinese2019-UTF8.csv", "CCFChinese2019"),
       Pair("CCFT2022-UTF8.csv", "CCFT2022"),
       Pair("GJQKYJMD2020.csv", "GJQKYJMD2020"),
       Pair("GJQKYJMD2021.csv", "GJQKYJMD2021"),
       Pair("GJQKYJMD2023.csv", "GJQKYJMD2023"),
       Pair("GJQKYJMD2024.csv", "GJQKYJMD2024"),
       Pair("GJQKYJMD2025.csv", "GJQKYJMD2025") >>

PairIndexes == 1..Len(Pairs)
FileNames == {Pairs[k].file : k \in PairIndexes}

\* the connection after close, or before connect
Closed == [open |-> FALSE, db |-> NoFile]

\* what len(tables) counts at line 398: the tables of sqlite_master, among
\* them sqlite_sequence once a table with AUTOINCREMENT exists
TableCount(db) ==
    Cardinality(DOMAIN db.tables) + (IF DOMAIN db.sequence = {} THEN 0 ELSE 1)

NoReport == [printed |-> FALSE, tables |-> 0, records |-> 0]
NoCall == [called |-> FALSE, raised |-> FALSE, ret |-> 0]

\* an unhandled exception: the traceback, exit status 1; the connection is
\* dropped without commit, so the file keeps what was committed
Crash ==
    /\ pc' = "crashed"
    /\ exitStatus' = "1"
    /\ diag' = "traceback"
    /\ conn' = Closed

\* a variant that reports the missing directory and goes on
CheckCsvDirNoReturn ==
    /\ pc = "start"
    /\ pc' = "backup"
    /\ diag' = IF csvDir.exists THEN diag ELSE "csv_dir_missing"
    /\ UNCHANGED <<idx, fs, conn, csvDir, total_records, exitStatus, report,
                   dbBefore, calls, last>>

\* lines 322-325
CheckCsvDir ==
    /\ pc = "start"
    /\ IF csvDir.exists
       THEN /\ pc' = "backup"
            /\ UNCHANGED <<exitStatus, diag>>
       ELSE /\ pc' = "returned"
            /\ diag' = "csv_dir_missing"
            /\ exitStatus' = "0"
    /\ UNCHANGED <<idx, fs, conn, csvDir, total_records, report, dbBefore,
                   calls, last>>

\* a variant that removes the old database without copying it
BackupCopySkipped ==
    /\ pc = "backup"
    /\ fs[DB_PATH].exists
    /\ pc' = "unlink"
    /\ UNCHANGED <<idx, fs, conn, csvDir, total_records, exitStatus, diag,
                   report, dbBefore, calls, last>>

\* lines 328-332: shutil.copy2(DB_PATH, backup_path)
BackupCopy ==
    /\ pc = "backup"
    /\ fs[DB_PATH].exists
    /\ fs' = [fs EXCEPT ![BackupPath] = fs[DB_PATH]]
    /\ pc' = "unlink"
    /\ UNCHANGED <<idx, conn, csvDir, total_records, exitStatus, diag, report,
                   dbBefore, calls, last>>

\* line 328, no database file: nothing to back up
NoBackup ==
    /\ pc = "backup"
    /\ ~fs[DB_PATH].exists
    /\ pc' = "connect"
    /\ UNCHANGED <<idx, fs, conn, csvDir, total_records, exitStatus, diag,
                   report, dbBefore, calls, last>>

\* line 333: DB_PATH.unlink()
Unlink ==
    /\ pc = "unlink"
    /\ fs' = [fs EXCEPT ![DB_PATH] = NoFile]
    /\ pc' = "connect"
    /\ UNCHANGED <<idx, conn, csvDir, total_records, exitStatus, diag, report,
                   dbBefore, calls, last>>

\* line 337: sqlite3.connect(DB_PATH) opens the file, creating it when absent
Connect ==
    /\ pc = "connect"
    /\ LET db == IF fs[DB_PATH].exists THEN fs[DB_PATH] ELSE EmptyDatabase
       IN  /\ conn' = [open |-> TRUE, db |-> db]
           /\ fs' = [fs EXCEPT ![DB_PATH] = db]
    /\ pc' = "create_tables"
    /\ UNCHANGED <<idx, csvDir, total_records, exitStatus, diag, report,
                   dbBefore, calls, last>>

\* line 340: create_tables(conn); then total_records = 0 (line 347)
CreateTables ==
    /\ pc = "create_tables"
    /\ LET db == CreateTablesIn(conn.db)
       IN  /\ conn' = [conn EXCEPT !.db = db]
           /\ fs' = [fs EXCEPT ![DB_PATH] = db]
    /\ total_records' = 0
    /\ idx' = 1
    /\ pc' = "import"
    /\ UNCHANGED <<csvDir, exitStatus, diag, report, dbBefore, calls, last>>

\* a variant whose total is the count of the last file, not the sum
ImportStepKeepsLastCount ==
    /\ pc = "import"
    /\ idx \in PairIndexes
    /\ LET o == ImportCsvToTable(conn.db, csvDir.files[Pairs[idx].file],
                                 Pairs[idx].table)
       IN  IF o.raised
           THEN /\ Crash
                /\ UNCHANGED <<idx, fs, total_records>>
           ELSE /\ conn' = [conn EXCEPT !.db = o.db]
                /\ fs' = IF o.committed THEN [fs EXCEPT ![DB_PATH] = o.db]
                         ELSE fs
                /\ total_records' = o.ret
                /\ idx' = idx + 1
                /\ pc' = IF idx = Len(Pairs) THEN "create_indexes"
                         ELSE "import"
                /\ UNCHANGED <<exitStatus, diag>>
    /\ UNCHANGED <<csvDir, report, dbBefore, calls, last>>

\* lines 351-385: one turn of the import loops, for the pair Pairs[idx]
ImportStep ==
    /\ pc = "import"
    /\ idx \in PairIndexes
    /\ LET o == ImportCsvToTable(conn.db, csvDir.files[Pairs[idx].file],
                                 Pairs[idx].table)
       IN  IF o.raised
           THEN /\ Crash
                /\ UNCHANGED <<idx, fs, total_records>>
           ELSE /\ conn' = [conn EXCEPT !.db = o.db]
                /\ fs' = IF o.committed THEN [fs EXCEPT ![DB_PATH] = o.db]
                         ELSE fs
                /\ total_records' = total_records + o.ret
                /\ idx' = idx + 1
                /\ pc' = IF idx = Len(Pairs) THEN "create_indexes"
                         ELSE "import"
                /\ UNCHANGED <<exitStatus, diag>>
    /\ UNCHANGED <<csvDir, report, dbBefore, calls, last>>

\* line 389: create_indexes(conn), on either build of SQLite
CreateIndexes ==
    /\ pc = "create_indexes"
    /\ \E strict \in BOOLEAN :
         LET r == CreateIndexesIn(conn.db, IndexStatements, strict)
         IN  /\ fs' = [fs EXCEPT ![DB_PATH] = r.db]
             /\ IF r.raised
                THEN Crash
                ELSE /\ conn' = [conn EXCEPT !.db = r.db]
                     /\ pc' = "report"
                     /\ UNCHANGED <<exitStatus, diag>>
    /\ UNCHANGED <<idx, csvDir, total_records, report, dbBefore,
                   calls, last>>

\* lines 396-414: the statistics, conn.close(), and the end of the script
Report ==
    /\ pc = "report"
    /\ report' = [printed |-> TRUE, tables |-> TableCount(conn.db),
                  records |-> total_records]
    /\ conn' = Closed
    /\ pc' = "done"
    /\ exitStatus' = "0"
    /\ diag' = "rebuild_complete"
    /\ UNCHANGED <<idx, fs, csvDir, total_records, dbBefore, calls, last>>

----------------------------------------------------------------------------
(* import_csv_to_table called on its own, again and again for the pair     *)
(* Pairs[idx], on a connection whose tables create_tables has created; the *)
(* caller catches what a call raises.                                      *)

ImportCall ==
    /\ pc = "harness"
    /\ calls < MaxCalls
    /\ LET o == ImportCsvToTable(conn.db, csvDir.files[Pairs[idx].file],
                                 Pairs[idx].table)
       IN  /\ conn' = [conn EXCEPT !.db = o.db]
           /\ fs' = IF o.committed THEN [fs EXCEPT ![DB_PATH] = o.db] ELSE fs
           /\ last' = [called |-> TRUE, raised |-> o.raised, ret |-> o.ret]
    /\ calls' = calls + 1
    /\ UNCHANGED <<pc, idx, csvDir, total_records, exitStatus, diag, report,
                   dbBefore>>

----------------------------------------------------------------------------
(* The inputs: the CSV directory and the files found at the two paths.     *)

\* the column of the ISSN in the CAS-partition files
IssnColumn(t) == IF t = "FQBJCR2025" THEN "ISSN/EISSN" ELSE "ISSN"

\* one column of each table that is no part of its key
PayloadColumn(t) ==
    CASE t = "JCR2020" -> "IF (2020)"
      [] t = "JCR2021" -> "IF(2021)"
      [] t = "JCR2022" -> "IF Quartile(2022)"
      [] t \in {"JCR2023", "JCR2024"} -> "Category"
      [] t \in FQBTables -> "Top"
      [] t \in {"CCF2019", "CCF2022", "CCFChinese2019"} -> "CCF TuiJianLeiXing"
      [] t = "CCFT2022" -> "T FenQu"
      [] t = "GJQKYJMD2020" -> "YuJingDengJi(2020)"
      [] t = "GJQKYJMD2021" -> "YuJingDengJi(2021)"
      [] t = "GJQKYJMD2023" -> "YuJingDengJi(2023)"
      [] t = "GJQKYJMD2024" -> "YuJingYuanYin(2024)"
      [] t = "GJQKYJMD2025" -> "YuJingYuanYin(2025)"

\* a header of the file of table t: Journal (written with a space after it),
\* the ISSN in the CAS-partition files, and the payload column
Header(t) ==
    IF t \in FQBTables
    THEN <<Text(TRUE, "Journal"), Text(FALSE, IssnColumn(t)),
           Text(FALSE, PayloadColumn(t))>>
    ELSE <<Text(TRUE, "Journal"), Text(FALSE, PayloadColumn(t))>>

\* a header naming a column no table has
BogusHeader == <<Text(FALSE, "Journal"), Text(FALSE, "Bogus")>>

\* the data rows under Header(t), from the texts given for each field
RowsOf(t, journals, issns, payloads) ==
    IF t \in FQBTables
    THEN {<<j, i, p>> : j \in journals, i \in issns, p \in payloads}
    ELSE {<<j, p>> : j \in journals, p \in payloads}

SeqsUpTo(S, n) == UNION {[1..m -> S] : m \in 0..n}

\* the files the harness reads: every sequence of at most MaxCsvRows rows
\* over two journals (one also written with spaces around it) and an empty
\* journal, an ISSN or none, a payload or only whitespace; a file whose
\* header names an unknown column; a file whose first row is too long
HarnessRows(t) ==
    RowsOf(t, {Text(FALSE, "a"), Text(TRUE, "a"), Text(FALSE, "b"),
               Text(FALSE, "")},
              {Text(FALSE, "1"), Text(FALSE, "")},
              {Text(FALSE, "x"), Text(TRUE, "")})

HarnessFiles(t) ==
    {CsvFile(Header(t), rows) : rows \in SeqsUpTo(HarnessRows(t), MaxCsvRows)}
    \cup {CsvFile(BogusHeader, <<<<Text(FALSE, "a"), Text(FALSE, "x")>>>>),
          CsvFile(Header(t), <<<<Text(FALSE, "a"), Text(FALSE, "1"),
                                 Text(FALSE, "x"), Text(FALSE, "y")>>>>)}

\* the files main reads: a file of one row (journal "a"), and a file of two
\* rows whose second has no journal
MainFiles(t) ==
    LET good == CHOOSE r \in RowsOf(t, {Text(FALSE, "a")}, {Text(FALSE, "1")},
                                       {Text(FALSE, "x")}) : TRUE
        blank == CHOOSE r \in RowsOf(t, {Text(FALSE, "")}, {Text(FALSE, "1")},
                                        {Text(FALSE, "x")}) : TRUE
    IN  {CsvFile(Header(t), <<good>>), CsvFile(Header(t), <<good, blank>>)}

\* a directory holding the given files and no other
Directory(present) ==
    [exists |-> TRUE,
     files |-> [f \in FileNames |->
                   IF f \in DOMAIN present THEN present[f] ELSE MissingCsv]]

NoDirectory == [exists |-> FALSE, files |-> [f \in FileNames |-> MissingCsv]]

TableOf(f) == Pairs[CHOOSE k \in PairIndexes : Pairs[k].file = f].table

\* the directories main runs against: at most MaxPresent files present
MainDirectories ==
    {Directory(present) :
        present \in UNION {
            {p \in [S -> UNION {MainFiles(TableOf(f)) : f \in S}] :
                \A f \in S : p[f] \in MainFiles(TableOf(f))} :
            S \in {S \in SUBSET FileNames : Cardinality(S) <= MaxPresent}}}

\* the directories of the harness for the pair Pairs[k]: its file alone, or
\* no file at all
HarnessDirectories(k) ==
    {Directory([f \in {Pairs[k].file} |-> c]) :
        c \in HarnessFiles(Pairs[k].table)} \cup {Directory(<<>>)}

\* a database left by an earlier run, and an older backup of another one
OldRow(j) == Row(1, "JCR2020", [c \in DataColumns("JCR2020") |->
                                   IF c = "Journal" THEN j ELSE None])
OldDatabase ==
    [CreateTablesIn(EmptyDatabase) EXCEPT
        !.tables["JCR2020"] = <<OldRow("old")>>, !.sequence["JCR2020"] = 1]
StaleBackup ==
    [CreateTablesIn(EmptyDatabase) EXCEPT
        !.tables["JCR2020"] = <<OldRow("older")>>, !.sequence["JCR2020"] = 1]

----------------------------------------------------------------------------
(* The specifications.                                                     *)

\* main, started in any of the environments
Init ==
    /\ pc = "start"
    /\ idx = 0
    /\ fs \in {[p \in Paths |-> IF p = DB_PATH THEN d ELSE b] :
                  d \in {NoFile, OldDatabase}, b \in {NoFile, StaleBackup}}
    /\ dbBefore = fs[DB_PATH]
    /\ conn = Closed
    /\ csvDir \in MainDirectories \cup {NoDirectory}
    /\ total_records = 0
    /\ exitStatus = "running"
    /\ diag = "none"
    /\ report = NoReport
    /\ calls = 0
    /\ last = NoCall

Next ==
    \/ CheckCsvDir
    \/ BackupCopy
    \/ NoBackup
    \/ Unlink
    \/ Connect
    \/ CreateTables
    \/ ImportStep
    \/ CreateIndexes
    \/ Report

Spec == Init /\ [][Next]_vars

\* import_csv_to_table on a fresh database with its tables created
InitImport ==
    /\ pc = "harness"
    /\ idx \in PairIndexes
    /\ fs = [p \in Paths |-> IF p = DB_PATH THEN CreateTablesIn(EmptyDatabase)
                             ELSE NoFile]
    /\ dbBefore = NoFile
    /\ conn = [open |-> TRUE, db |-> CreateTablesIn(EmptyDatabase)]
    /\ csvDir \in HarnessDirectories(idx)
    /\ total_records = 0
    /\ exitStatus = "running"
    /\ diag = "none"
    /\ report = NoReport
    /\ calls = 0
    /\ last = NoCall

NextImport == ImportCall

SpecImport == InitImport /\ [][NextImport]_vars

----------------------------------------------------------------------------
(* What the claims speak of.                                               *)

\* the natural key of a table: Journal, with the ISSN in the CAS-partition
\* tables
NaturalKey(t) == IF t \in FQBTables THEN {"Journal", IssnColumn(t)}
                 ELSE {"Journal"}

\* two rows hold the same natural key (as SQL compares: a NULL equals nothing)
SameKey(t, f, g) == \A c \in NaturalKey(t) : f[c] # None /\ f[c] = g[c]

\* the pair the harness imports: its file, its table, the table's rows
HarnessFile == csvDir.files[Pairs[idx].file]
HarnessTable == Pairs[idx].table
HarnessRowsStored == conn.db.tables[HarnessTable]

\* the files present in the directory, and the data rows of the first k files
PresentFiles == {f \in FileNames : csvDir.files[f].exists}

RECURSIVE SumDataRows(_)
SumDataRows(k) ==
    IF k = 0 THEN 0
    ELSE Len(csvDir.files[Pairs[k].file].rows) + SumDataRows(k - 1)

\* what importing the file of Pairs[k] into its empty table stores
ImportedAlone(k) ==
    ImportCsvToTable(CreateTablesIn(EmptyDatabase),
                     csvDir.files[Pairs[k].file],
                     Pairs[k].table).db.tables[Pairs[k].table]

----------------------------------------------------------------------------
(* C1: importing the same CSV a second time, nothing else changed, leaves  *)
(* the number of rows of the target table what it was after the first      *)
(* import.                                                                 *)
C1_ReimportKeepsRowCount ==
    [][last.called =>
         Len(conn'.db.tables[HarnessTable]) = Len(HarnessRowsStored)]_vars

(* C2: after any sequence of imports no table holds two rows with the same *)
(* natural key.                                                            *)
C2_NaturalKeyUnique ==
    \A t \in DOMAIN conn.db.tables :
        \A i, j \in 1..Len(conn.db.tables[t]) :
            i # j => ~SameKey(t, conn.db.tables[t][i].f,
                                 conn.db.tables[t][j].f)

(* C3: when an imported row has the key of a row already in the table and  *)
(* other fields that differ, the table afterwards holds exactly one row of *)
(* that key, and every field of it is the new row's (NULL where the new    *)
(* row has no value).                                                      *)
C3_ReplaceNotMerge ==
    (last.called /\ ~last.raised /\ HarnessFile.exists) =>
        LET names == FieldNames(HarnessFile.header)
            data == DataOf(names, HarnessFile.rows)
            F(i) == NewRow(conn.db, HarnessTable, names, data[i]).f
        IN  \A i \in 1..Len(data) : \A j \in 1..(i - 1) :
                ( /\ SameKey(HarnessTable, F(j), F(i))
                  /\ F(j) # F(i)
                  /\ \A m \in (i + 1)..Len(data) :
                         ~SameKey(HarnessTable, F(m), F(i)) )
                => LET hits == {n \in 1..Len(HarnessRowsStored) :
                                   SameKey(HarnessTable,
                                           HarnessRowsStored[n].f, F(i))}
                   IN  /\ Cardinality(hits) = 1
                       /\ \A n \in hits : HarnessRowsStored[n].f = F(i)

(* C4: a database file found at the target path is copied to the backup    *)
(* path before it is removed: once main is past the backup the backup file *)
(* is identical to the database as it was before the run, and the file at  *)
(* the target path never differs from the original while the backup does.  *)
C4_BackupBeforeRemoval ==
    dbBefore.exists =>
        /\ pc \notin {"start", "backup", "returned"} => fs[BackupPath] = dbBefore
        /\ fs[DB_PATH] # dbBefore => fs[BackupPath] = dbBefore

C4_Witness ==
    /\ pc = "done"
    /\ dbBefore.exists
    /\ fs[BackupPath] = dbBefore
    /\ fs[DB_PATH] # dbBefore

(* C5, as stated: with only 2 of the files present the rebuilt database    *)
(* holds 20 tables, 18 of them empty, and the reported total is the sum of *)
(* the data rows of the 2 files.                                           *)
C5_TwentyTables ==
    (pc = "done" /\ Cardinality(PresentFiles) = 2) =>
        /\ Cardinality(DOMAIN fs[DB_PATH].tables) = 20
        /\ Cardinality({k \in PairIndexes :
                           ~csvDir.files[Pairs[k].file].exists}) = 18
        /\ report.records = SumDataRows(Len(Pairs))

(* C5, amended: main knows 18 (file, table) pairs. With only 2 of the 18   *)
(* files present the database holds all 18 tables from create_tables on,   *)
(* the tables of the 16 missing files stay empty, and the total main has   *)
(* after the imports, and reports, is the sum of the data rows of the 2    *)
(* files.                                                                  *)
C5_EighteenTables ==
    (Cardinality(PresentFiles) = 2
        /\ pc \in {"import", "create_indexes", "report", "done", "crashed"}) =>
        /\ DOMAIN fs[DB_PATH].tables = Tables
        /\ Cardinality(Tables) = 18
        /\ Cardinality({k \in PairIndexes :
                           ~csvDir.files[Pairs[k].file].exists}) = 16
        /\ \A k \in PairIndexes :
               ~csvDir.files[Pairs[k].file].exists
                   => fs[DB_PATH].tables[Pairs[k].table] = <<>>
        /\ pc \in {"create_indexes", "report", "done"}
               => total_records = SumDataRows(Len(Pairs))
        /\ report.printed => report.records = SumDataRows(Len(Pairs))

C5_Witness ==
    /\ pc = "done"
    /\ Cardinality(PresentFiles) = 2
    /\ report.printed
    /\ report.records = 3
    /\ \E t \in DOMAIN fs[DB_PATH].tables : Len(fs[DB_PATH].tables[t]) = 2

(* C6: when the CSV directory does not exist no step of main changes the   *)
(* file at the database path or the file at the backup path, and no        *)
(* connection (which would create the database file) is opened.            *)
C6_MissingDirectoryTouchesNothing ==
    [][~csvDir.exists => (fs' = fs /\ conn' = conn /\ ~conn.open)]_vars

C6_Witness ==
    /\ ~csvDir.exists
    /\ pc = "returned"
    /\ fs[DB_PATH].exists
    /\ fs[DB_PATH] = dbBefore
    /\ ~fs[BackupPath].exists

(* C7: a missing CSV file is not fatal. The turn of the import loop that   *)
(* finds its file missing adds 0 to the total, leaves the database as it   *)
(* is and goes on to the next pair, or to create_indexes after the last;   *)
(* and main is done only after the turn of every pair and with the indexes *)
(* built.                                                                  *)
C7_MissingFileStep ==
    (pc = "import" /\ ~csvDir.files[Pairs[idx].file].exists) =>
        /\ conn'.db = conn.db
        /\ fs' = fs
        /\ total_records' = total_records
        /\ idx' = idx + 1
        /\ pc' = (IF idx = Len(Pairs) THEN "create_indexes" ELSE "import")

C7_MissingFileNotFatal ==
    [][/\ C7_MissingFileStep
       /\ pc' = "done" =>
              (idx' = Len(Pairs) + 1 /\ fs'[DB_PATH].indexes # {})]_vars

C7_Witness ==
    /\ pc = "done"
    /\ report.printed
    /\ Cardinality(PresentFiles) = 2
    /\ ~csvDir.files[Pairs[1].file].exists
    /\ ~csvDir.files[Pairs[Len(Pairs)].file].exists
    /\ fs[DB_PATH].indexes # {}

(* C8: every run that ends without completing the rebuild ends with a      *)
(* diagnostic and a non-zero exit status; the exit status is zero only     *)
(* when the rebuild ran to completion.                                     *)
C8_FailureExitsNonZero ==
    /\ pc \in {"returned", "crashed"} => (exitStatus = "1" /\ diag # "none")
    /\ exitStatus = "0" => pc = "done"

(* C9: when an insert fails at the pair Pairs[idx] the run halts there:    *)
(* the database file holds the rows of every pair imported before it, no   *)
(* row of a later pair, it is not the database of before the run, and the  *)
(* backup made at the start still is.                                      *)
C9_NoRollback ==
    (pc = "crashed" /\ idx \in PairIndexes) =>
        /\ \A j \in 1..(idx - 1) :
               fs[DB_PATH].tables[Pairs[j].table] = ImportedAlone(j)
        /\ \A j \in (idx + 1)..Len(Pairs) :
               fs[DB_PATH].tables[Pairs[j].table] = <<>>
        /\ ~ENABLED Next
        /\ dbBefore.exists =>
               (fs[DB_PATH] # dbBefore /\ fs[BackupPath] = dbBefore)

C9_Witness ==
    /\ pc = "crashed"
    /\ idx \in PairIndexes
    /\ dbBefore.exists
    /\ fs[BackupPath] = dbBefore
    /\ \E j \in 1..(idx - 1) : fs[DB_PATH].tables[Pairs[j].table] # <<>>
    /\ fs[DB_PATH].tables[Pairs[idx].table] = <<>>

(* C10: every index of the database is on a column its table declares.     *)
C10_IndexesOnDeclaredColumns ==
    \A i \in fs[DB_PATH].indexes : i.column \in Columns(i.table)

====
